---------------------------- MODULE Spec2Model ----------------------------
(***************************************************************************)
(* A model of crow_util's Holder<T> (src/src/holder.rs): a                 *)
(* HashMap<String, Box<T>> behind an UnsafeCell, which is read and         *)
(* inserted into through a shared handle.                                  *)
(*                                                                         *)
(* The Holder is modelled as                                               *)
(*   items   : the table's entries, key -> address of the Box              *)
(*   heap    : the live Box allocations, address -> value                  *)
(*   buckets : the number of buckets of the table (0: nothing allocated)   *)
(* The capacity policy is the one of the standard library's HashMap        *)
(* (hashbrown), which the Holder delegates to.                             *)
(*                                                                         *)
(* The utilities on Vec<T> (src/src/pop_iter.rs, src/src/traits.rs) work   *)
(* on `vec`; each has its own specification, in which the Holder is not    *)
(* used, as the Vec is not used in the specifications of the Holder.       *)
(***************************************************************************)
EXTENDS Integers, Sequences, FiniteSets, TLC

\* ------------------------------------------------------------------ bounds
MaxKeys == 4
MaxVal == 2
MaxInitCap == 4
MaxVecLen == 3

Keys == 1..MaxKeys
Values == 1..MaxVal
\* one Box per key, and the one insert_fn builds before the old one is dropped
Addr == 1..(MaxKeys + 1)

\* Option::None, for references (no address) and for keys (no producer runs)
None == 0

VARIABLES
    items,      \* key -> address: the HashMap<String, Box<T>> of the Holder
    heap,       \* address -> value: the Boxes that are allocated
    buckets,    \* bucket count of the table; capacity() derives from it
    producing,  \* the key of the insert_fn call whose closure is running, or None
    last,       \* the last step: operation, key, returned reference, closure run
    panicked,   \* an assert! of the Holder failed
    hist        \* the inserts made so far, in a run of distinct-key inserts

VARIABLES
    vec,        \* the Vec<T> a utility works on
    orig,       \* the Vec as it was when the utility was called
    phase,      \* what is going on: "idle", "iter", "loop", "held", "done"
    out,        \* the call just made on the Vec and its result
    yielded,    \* the items next() has returned, in order
    seen,       \* the calls of the predicate of retain_mut, in order
    st          \* the locals of retain_mut: i, del, len

holderVars == <<items, heap, buckets, producing, last, panicked, hist>>
vecVars == <<vec, orig, phase, out, yielded, seen, st>>
vars == <<items, heap, buckets, producing, last, panicked, hist,
          vec, orig, phase, out, yielded, seen, st>>

\* --------------------------------------------------- the table (HashMap)
EmptyMap == [k \in {} |-> None]

RECURSIVE next_power_of_two(_, _)
next_power_of_two(n, p) == IF p >= n THEN p ELSE next_power_of_two(n, 2 * p)

\* the bucket count for a wanted capacity: 0 allocates nothing, then 4, 8,
\* then the power of two that leaves 1/8 of the buckets free
capacity_to_buckets(cap) ==
    IF cap = 0 THEN 0
    ELSE IF cap < 4 THEN 4
    ELSE IF cap < 8 THEN 8
    ELSE next_power_of_two((cap * 8) \div 7, 1)

\* the entries a table of b buckets holds without reallocating
bucket_mask_to_capacity(b) ==
    IF b = 0 THEN 0
    ELSE IF b <= 8 THEN b - 1
    ELSE (b \div 8) * 7

Max(a, b) == IF a >= b THEN a ELSE b

\* (variant: the bucket array grows one entry early)
reserve_early(its, b) ==
    IF Cardinality(DOMAIN its) + 1 >= bucket_mask_to_capacity(b)
    THEN capacity_to_buckets(Max(Cardinality(DOMAIN its) + 1,
                                 bucket_mask_to_capacity(b) + 1))
    ELSE b

\* reserve(1): room for one more entry; grows the bucket array when full
reserve(its, b) ==
    IF Cardinality(DOMAIN its) + 1 > bucket_mask_to_capacity(b)
    THEN capacity_to_buckets(Max(Cardinality(DOMAIN its) + 1,
                                 bucket_mask_to_capacity(b) + 1))
    ELSE b

\* the lowest free address: where a new Box is allocated
Alloc(hp) == CHOOSE a \in Addr \ DOMAIN hp : \A b \in Addr \ DOMAIN hp : a <= b

Put(f, k, x) == [j \in DOMAIN f \cup {k} |-> IF j = k THEN x ELSE f[j]]
Drop(f, S) == [j \in DOMAIN f \ S |-> f[j]]

\* HashMap::insert(key, Box::new(element)): the Box is allocated first, the table
\* makes room, the entry is written over any entry of the key, whose Box is
\* returned (`old`) and dropped by the caller
HashMapInsert(h, k, v) ==
    LET a   == Alloc(h.heap)
        old == IF k \in DOMAIN h.items THEN h.items[k] ELSE None
    IN  [h   |-> [items   |-> Put(h.items, k, a),
                  heap    |-> Drop(Put(h.heap, a, v), {old}),
                  buckets |-> reserve(h.items, h.buckets)],
         old |-> old]

\* ------------------------------------------------------------ the Holder
\* the Holder as it stands
holder == [items |-> items, heap |-> heap, buckets |-> buckets]

new == [items |-> EmptyMap, heap |-> EmptyMap, buckets |-> 0]

with_capacity(n) ==
    [items |-> EmptyMap, heap |-> EmptyMap, buckets |-> capacity_to_buckets(n)]

\* the reference get returns: the address of the key's Box, or None
get(h, k) == IF k \in DOMAIN h.items THEN h.items[k] ELSE None

\* what a reference points to
Deref(h, r) == h.heap[r]

len(h) == Cardinality(DOMAIN h.items)

capacity(h) == bucket_mask_to_capacity(h.buckets)

\* (variant: the element is stored whether the key is present or not)
insert_overwrites(h, k, v) ==
    LET r == HashMapInsert(h, k, v)
    IN  [h |-> r.h, res |-> IF k \in DOMAIN h.items THEN r.h.items[k] ELSE None,
         panic |-> FALSE]

\* (variant: a reference to the element just stored is returned)
insert_returns_stored(h, k, v) ==
    IF k \in DOMAIN h.items
    THEN [h |-> h, res |-> h.items[k], panic |-> FALSE]
    ELSE LET r == HashMapInsert(h, k, v)
         IN  [h |-> r.h, res |-> r.h.items[k], panic |-> r.old # None]

\* insert: the stored element is returned for a key that is present, else the
\* element is stored, the table's insert is asserted to return no old element
insert(h, k, v) ==
    IF k \in DOMAIN h.items
    THEN [h |-> h, res |-> get(h, k), panic |-> FALSE]
    ELSE LET r == HashMapInsert(h, k, v)
         IN  [h |-> r.h, res |-> None, panic |-> r.old # None]

\* insert_fn up to the call of the closure: is the key present?
insert_fn_present(h, k) == k \in DOMAIN h.items

\* (variant: a reference to the element just stored is returned)
insert_fn_store_returns_stored(h, k, v) ==
    LET r == HashMapInsert(h, k, v)
    IN  [h |-> r.h, res |-> r.h.items[k], panic |-> r.old # None]

\* insert_fn once the closure has returned v: the same store and assert
insert_fn_store(h, k, v) ==
    LET r == HashMapInsert(h, k, v)
    IN  [h |-> r.h, res |-> None, panic |-> r.old # None]

\* insert_fn with a closure that returns v and does nothing else
insert_fn(h, k, v) ==
    IF insert_fn_present(h, k)
    THEN [h |-> h, res |-> get(h, k), panic |-> FALSE]
    ELSE insert_fn_store(h, k, v)

\* (variant: the table is replaced by a new one)
clear_realloc(h) == [items |-> EmptyMap, heap |-> EmptyMap, buckets |-> 0]

\* clear: every entry is removed and its Box dropped, the buckets stay
clear(h) == [items |-> EmptyMap, heap |-> EmptyMap, buckets |-> h.buckets]

\* (variant: the table is replaced by a new, empty one)
shrink_to_fit_drops(h) ==
    IF capacity_to_buckets(len(h)) < h.buckets
    THEN [items |-> EmptyMap, heap |-> EmptyMap, buckets |-> capacity_to_buckets(len(h))]
    ELSE h

\* (variant: one bucket per entry, the load factor forgotten)
shrink_to_fit_tight(h) ==
    [h EXCEPT !.buckets =
        IF len(h) = 0 THEN 0 ELSE next_power_of_two(len(h), 1)]

\* (variant: the smallest allocated table is kept for an empty map)
shrink_to_fit_min(h) ==
    [h EXCEPT !.buckets =
        IF capacity_to_buckets(Max(len(h), 1)) < h.buckets
        THEN capacity_to_buckets(Max(len(h), 1))
        ELSE h.buckets]

\* shrink_to_fit: the smallest bucket array for the entries there are
shrink_to_fit(h) ==
    [h EXCEPT !.buckets =
        IF len(h) = 0 THEN 0
        ELSE IF capacity_to_buckets(len(h)) < h.buckets
             THEN capacity_to_buckets(len(h))
             ELSE h.buckets]

\* ------------------------------------------------------------------ steps
\* The record of a step: the operation, its key, the reference it returned,
\* whether it ran a closure, capacity() and len() as they were before it, and
\* the operation of the step before it.
Step(op, k, r, ran) ==
    [op |-> op, key |-> k, res |-> r, ran |-> ran,
     cap |-> capacity(holder), n |-> len(holder), after |-> last.op]

Become(h) ==
    /\ items' = h.items
    /\ heap' = h.heap
    /\ buckets' = h.buckets

\* no Vec utility is in use
VecUnused ==
    /\ vec = <<>>
    /\ orig = <<>>
    /\ phase = "idle"
    /\ out = [op |-> "none"]
    /\ yielded = <<>>
    /\ seen = <<>>
    /\ st = [i |-> 0, del |-> 0, len |-> 0]

Init ==
    /\ VecUnused
    /\ \E h \in {new} \cup {with_capacity(n) : n \in 0..MaxInitCap} :
          /\ items = h.items
          /\ heap = h.heap
          /\ buckets = h.buckets
    /\ producing = None
    /\ last = [op |-> "new", key |-> None, res |-> None, ran |-> FALSE,
               cap |-> 0, n |-> 0, after |-> "new"]
    /\ panicked = FALSE
    /\ hist = <<>>

\* holder.insert(k, v), by the caller or by a closure that is running
InsertCall(k, v) ==
    /\ ~panicked
    /\ LET r == insert(holder, k, v)
       IN  /\ Become(r.h)
           /\ panicked' = r.panic
           /\ last' = Step("insert", k, r.res, FALSE)
    /\ UNCHANGED producing

Insert(k, v) == InsertCall(k, v) /\ UNCHANGED hist

\* (variant: the closure is called before the key is looked up)
InsertFnEager(k) ==
    /\ ~panicked
    /\ producing = None
    /\ IF insert_fn_present(holder, k)
       THEN /\ last' = Step("insert_fn", k, get(holder, k), TRUE)
            /\ UNCHANGED producing
       ELSE /\ last' = Step("element", k, None, TRUE)
            /\ producing' = k
    /\ UNCHANGED <<items, heap, buckets, panicked, hist>>

\* holder.insert_fn(k, f): for a key that is present the call returns at once and
\* f does not run; else f starts to run, and may use the Holder before it returns
InsertFn(k) ==
    /\ ~panicked
    /\ producing = None
    /\ IF insert_fn_present(holder, k)
       THEN /\ last' = Step("insert_fn", k, get(holder, k), FALSE)
            /\ UNCHANGED producing
       ELSE /\ last' = Step("element", k, None, TRUE)
            /\ producing' = k
    /\ UNCHANGED <<items, heap, buckets, panicked, hist>>

\* holder.insert_fn(k, g) called by the closure that is running, g a closure that
\* returns v and does not use the Holder
InsertFnInner(k, v) ==
    /\ ~panicked
    /\ producing # None
    /\ LET r == insert_fn(holder, k, v)
       IN  /\ Become(r.h)
           /\ panicked' = r.panic
           /\ last' = Step("insert_fn", k, r.res, ~insert_fn_present(holder, k))
    /\ UNCHANGED <<producing, hist>>

\* the closure of the insert_fn call returns v: the element is stored
InsertFnReturn(v) ==
    /\ ~panicked
    /\ producing # None
    /\ LET r == insert_fn_store(holder, producing, v)
       IN  /\ Become(r.h)
           /\ panicked' = r.panic
           /\ last' = Step("insert_fn_end", producing, r.res, FALSE)
    /\ producing' = None
    /\ UNCHANGED hist

\* holder.clear(): &mut self, so no call of the Holder is running
Clear ==
    /\ ~panicked
    /\ producing = None
    /\ Become(clear(holder))
    /\ last' = Step("clear", None, None, FALSE)
    /\ UNCHANGED <<producing, panicked, hist>>

\* holder.shrink_to_fit(): &mut self as well
ShrinkToFit ==
    /\ ~panicked
    /\ producing = None
    /\ Become(shrink_to_fit(holder))
    /\ last' = Step("shrink_to_fit", None, None, FALSE)
    /\ UNCHANGED <<producing, panicked, hist>>

\* holder.get(k), by the caller or by a closure that is running
Get(k) ==
    /\ ~panicked
    /\ last' = Step("get", k, get(holder, k), FALSE)
    /\ UNCHANGED <<items, heap, buckets, producing, panicked, hist>>

\* Keys are strings that the table only compares: they are named in the order of
\* their first use, so a call uses a key that was used or the next unused one.
Touched == DOMAIN items \cup ({producing} \ {None})
UsableKeys == {k \in Keys : k <= Cardinality(Touched) + 1}

Next ==
    \/ \E k \in UsableKeys, v \in Values : Insert(k, v) /\ UNCHANGED vecVars
    \/ \E k \in UsableKeys : InsertFn(k) /\ UNCHANGED vecVars
    \/ \E k \in UsableKeys, v \in Values : InsertFnInner(k, v) /\ UNCHANGED vecVars
    \/ \E v \in Values : InsertFnReturn(v) /\ UNCHANGED vecVars
    \/ Clear /\ UNCHANGED vecVars
    \/ ShrinkToFit /\ UNCHANGED vecVars

Spec == Init /\ [][Next]_vars

\* Inserts of pairwise distinct keys, in any order, into an empty Holder
InsertDistinct(k, v) ==
    /\ \A i \in 1..Len(hist) : hist[i].key # k
    /\ InsertCall(k, v)
    /\ hist' = Append(hist, [key |-> k, val |-> v, res |-> last'.res])

NextDistinct ==
    \E k \in Keys, v \in Values : InsertDistinct(k, v) /\ UNCHANGED vecVars

SpecDistinct == Init /\ [][NextDistinct]_vars

\* The calls through the shared handle, get included
NextShared ==
    \/ \E k \in UsableKeys : Get(k) /\ UNCHANGED vecVars
    \/ \E k \in UsableKeys, v \in Values : Insert(k, v) /\ UNCHANGED vecVars
    \/ \E k \in UsableKeys : InsertFn(k) /\ UNCHANGED vecVars
    \/ \E k \in UsableKeys, v \in Values : InsertFnInner(k, v) /\ UNCHANGED vecVars
    \/ \E v \in Values : InsertFnReturn(v) /\ UNCHANGED vecVars

SpecShared == Init /\ [][NextShared]_vars

\* ---------------------------------------------------------------- Vec<T>
\* the Vecs of at most MaxVecLen elements
RECURSIVE SeqsUpTo(_)
SeqsUpTo(n) ==
    IF n = 0 THEN {<<>>}
    ELSE SeqsUpTo(n - 1) \cup {Append(s, x) : s \in {t \in SeqsUpTo(n - 1) : Len(t) = n - 1}, x \in Values}

Vecs == SeqsUpTo(MaxVecLen)

\* no Holder is in use
HolderUnused ==
    /\ items = EmptyMap
    /\ heap = EmptyMap
    /\ buckets = 0
    /\ producing = None
    /\ last = [op |-> "none"]
    /\ panicked = FALSE
    /\ hist = <<>>

\* Vec::pop: the last element, removed, or None
pop(v) ==
    IF v = <<>> THEN [vec |-> v, res |-> None]
    ELSE [vec |-> SubSeq(v, 1, Len(v) - 1), res |-> v[Len(v)]]

\* Vec::swap_remove(index): the element at index (from 0), removed and replaced
\* by the last element
swap_remove(v, index) ==
    [vec |-> [j \in 1..(Len(v) - 1) |-> IF j = index + 1 THEN v[Len(v)] ELSE v[j]],
     res |-> v[index + 1]]

\* Vec::swap(a, b), indices from 0
swap(v, a, b) ==
    [j \in 1..Len(v) |-> IF j = a + 1 THEN v[b + 1] ELSE IF j = b + 1 THEN v[a + 1] ELSE v[j]]

\* Vec::truncate(n)
truncate(v, n) == IF n < Len(v) THEN SubSeq(v, 1, n) ELSE v

\* ------------------------------------------------------------- pop_iter.rs
\* (variant: next takes the first element)
PopIter_next_front(v) ==
    IF v = <<>> THEN [vec |-> v, res |-> None]
    ELSE [vec |-> Tail(v), res |-> Head(v)]

\* PopIter::next
PopIter_next(v) == pop(v)

\* (variant: count as Iterator provides it, by calling next until None)
PopIter_count_default(v) == [vec |-> <<>>, res |-> Len(v)]

\* PopIter::count
PopIter_count(v) == [vec |-> v, res |-> Len(v)]

\* PopIter::size_hint
PopIter_size_hint(v) == [vec |-> v, res |-> <<0, Len(v)>>]

\* (variant: last takes the element next() would yield first)
PopIter_last_pop(v) == pop(v)

\* PopIter::last
PopIter_last(v) ==
    IF v = <<>> THEN [vec |-> v, res |-> None]
    ELSE swap_remove(v, 0)

InitPopIter ==
    /\ HolderUnused
    /\ vec \in Vecs
    /\ orig = vec
    /\ phase = "idle"
    /\ out = [op |-> "none", res |-> None]
    /\ yielded = <<>>
    /\ seen = <<>>
    /\ st = [i |-> 0, del |-> 0, len |-> 0]

\* vec.pop_iter(): an iterator that borrows the Vec
ToPopIter ==
    /\ phase # "iter"
    /\ phase' = "iter"
    /\ orig' = vec
    /\ yielded' = <<>>
    /\ out' = [op |-> "pop_iter", res |-> None]
    /\ UNCHANGED <<vec, seen, st>>

\* iter.next()
IterNext ==
    /\ phase = "iter"
    /\ LET r == PopIter_next(vec)
       IN  /\ vec' = r.vec
           /\ out' = [op |-> "next", res |-> r.res]
           /\ yielded' = IF r.res = None THEN yielded ELSE Append(yielded, r.res)
    /\ UNCHANGED <<orig, phase, seen, st>>

\* iter.size_hint()
IterSizeHint ==
    /\ phase = "iter"
    /\ LET r == PopIter_size_hint(vec)
       IN  /\ vec' = r.vec
           /\ out' = [op |-> "size_hint", res |-> r.res]
    /\ UNCHANGED <<orig, phase, yielded, seen, st>>

\* iter.count(): the iterator is consumed
IterCount ==
    /\ phase = "iter"
    /\ LET r == PopIter_count(vec)
       IN  /\ vec' = r.vec
           /\ out' = [op |-> "count", res |-> r.res]
    /\ phase' = "done"
    /\ UNCHANGED <<orig, yielded, seen, st>>

\* iter.last(): the iterator is consumed
IterLast ==
    /\ phase = "iter"
    /\ LET r == PopIter_last(vec)
       IN  /\ vec' = r.vec
           /\ out' = [op |-> "last", res |-> r.res]
    /\ phase' = "done"
    /\ UNCHANGED <<orig, yielded, seen, st>>

NextPopIter ==
    \/ ToPopIter /\ UNCHANGED holderVars
    \/ IterNext /\ UNCHANGED holderVars
    \/ IterSizeHint /\ UNCHANGED holderVars
    \/ IterCount /\ UNCHANGED holderVars
    \/ IterLast /\ UNCHANGED holderVars

SpecPopIter == InitPopIter /\ [][NextPopIter]_vars

\* --------------------------------------------------- traits.rs: RetainMut
\* (variant: the predicate is given the slot the element will be moved to)
retain_arg_moved(s) == s.i - s.del

\* the index (from 0) of the element the predicate is called on: f(&mut v[i])
retain_arg(s) == s.i

\* (variant: the kept element is swapped to index del)
retain_step_wrong_swap(v, s, x, keep) ==
    LET v1 == [v EXCEPT ![retain_arg(s) + 1] = x]
    IN  IF ~keep
        THEN [vec |-> v1, st |-> [s EXCEPT !.del = @ + 1, !.i = @ + 1]]
        ELSE IF s.del > 0
        THEN [vec |-> swap(v1, s.del, s.i), st |-> [s EXCEPT !.i = @ + 1]]
        ELSE [vec |-> v1, st |-> [s EXCEPT !.i = @ + 1]]

\* one turn of the loop of retain_mut: the predicate leaves x in the element and
\* returns keep; a dropped element is counted, a kept one is swapped down over
\* the dropped ones
retain_step(v, s, x, keep) ==
    LET v1 == [v EXCEPT ![retain_arg(s) + 1] = x]
    IN  IF ~keep
        THEN [vec |-> v1, st |-> [s EXCEPT !.del = @ + 1, !.i = @ + 1]]
        ELSE IF s.del > 0
        THEN [vec |-> swap(v1, s.i - s.del, s.i), st |-> [s EXCEPT !.i = @ + 1]]
        ELSE [vec |-> v1, st |-> [s EXCEPT !.i = @ + 1]]

\* after the loop: the dropped elements, now at the end, are cut off
retain_end(v, s) == IF s.del > 0 THEN truncate(v, s.len - s.del) ELSE v

\* the locals of retain_mut when the loop starts
retain_start(v) == [i |-> 0, del |-> 0, len |-> Len(v)]

\* retain_mut with the predicate of the doc test: |x| { *x += 1; *x % 2 == 0 }
RECURSIVE retain_mut_inc_even(_, _)
retain_mut_inc_even(v, s) ==
    IF s.i < s.len
    THEN LET x == v[retain_arg(s) + 1] + 1
             r == retain_step(v, s, x, x % 2 = 0)
         IN  retain_mut_inc_even(r.vec, r.st)
    ELSE retain_end(v, s)

InitRetain ==
    /\ HolderUnused
    /\ vec \in Vecs
    /\ orig = vec
    /\ phase = "idle"
    /\ out = [op |-> "none"]
    /\ yielded = <<>>
    /\ seen = <<>>
    /\ st = [i |-> 0, del |-> 0, len |-> 0]

\* vec.retain_mut(f) is called
RetainMut ==
    /\ phase \in {"idle", "done"}
    /\ phase' = "loop"
    /\ orig' = vec
    /\ seen' = <<>>
    /\ st' = retain_start(vec)
    /\ out' = [op |-> "retain_mut"]
    /\ UNCHANGED <<vec, yielded>>

\* a turn of the loop: f is called on an element, changes it to x, returns keep
RetainCall(x, keep) ==
    /\ phase = "loop"
    /\ st.i < st.len
    /\ seen' = Append(seen, [idx |-> retain_arg(st), elem |-> vec[retain_arg(st) + 1],
                             left |-> x, keep |-> keep])
    /\ LET r == retain_step(vec, st, x, keep)
       IN  /\ vec' = r.vec
           /\ st' = r.st
    /\ out' = [op |-> "f"]
    /\ UNCHANGED <<orig, phase, yielded>>

\* the loop is over: retain_mut truncates and returns
RetainEnd ==
    /\ phase = "loop"
    /\ st.i = st.len
    /\ vec' = retain_end(vec, st)
    /\ phase' = "done"
    /\ out' = [op |-> "retain_mut_end"]
    /\ UNCHANGED <<orig, seen, st, yielded>>

NextRetain ==
    \/ RetainMut /\ UNCHANGED holderVars
    \/ \E x \in Values, keep \in BOOLEAN : RetainCall(x, keep) /\ UNCHANGED holderVars
    \/ RetainEnd /\ UNCHANGED holderVars

SpecRetain == InitRetain /\ [][NextRetain]_vars

\* ------------------------------------------------------ traits.rs: GetTwo
\* A reference to an element of the Vec is the index (from 0) of the element.
\* the indices a caller may pass: those of the longest Vec, and one past them
Indices == 0..(MaxVecLen + 1)

\* Option::None of get_two: no reference, no element touched
NoRefs == [some |-> FALSE, x |-> None, y |-> None, touched |-> {}]

\* (variant: the references are returned in the order of the indices)
get_two_unchecked_sorted(v, index_a, index_b) ==
    [some |-> TRUE,
     x |-> IF index_a < index_b THEN index_a ELSE index_b,
     y |-> IF index_a < index_b THEN index_b ELSE index_a,
     touched |-> {index_a, index_b}]

\* get_two_unchecked: ar is the element at index_a, br the one at index_b
get_two_unchecked(v, index_a, index_b) ==
    [some |-> TRUE, x |-> index_a, y |-> index_b, touched |-> {index_a, index_b}]

\* (variant: the bound is checked with <=)
get_two_len_inclusive(v, index_a, index_b) ==
    IF index_a # index_b /\ index_a <= Len(v) /\ index_b <= Len(v)
    THEN get_two_unchecked(v, index_a, index_b)
    ELSE NoRefs

\* get_two: the two references for distinct indices within the Vec, else None
get_two(v, index_a, index_b) ==
    IF index_a # index_b /\ index_a < Len(v) /\ index_b < Len(v)
    THEN get_two_unchecked(v, index_a, index_b)
    ELSE NoRefs

Called(op, a, b, r, w) ==
    [op |-> op, a |-> a, b |-> b, some |-> r.some, x |-> r.x, y |-> r.y,
     touched |-> r.touched, w |-> w]

InitGetTwo ==
    /\ HolderUnused
    /\ vec \in Vecs
    /\ orig = vec
    /\ phase = "idle"
    /\ out = Called("none", 0, 0, NoRefs, None)
    /\ yielded = <<>>
    /\ seen = <<>>
    /\ st = [i |-> 0, del |-> 0, len |-> 0]

\* vec.get_two(a, b): with Some the two references are held by the caller
GetTwo(a, b) ==
    /\ phase = "idle"
    /\ LET r == get_two(vec, a, b)
       IN  /\ out' = Called("get_two", a, b, r, None)
           /\ phase' = IF r.some THEN "held" ELSE "idle"
    /\ orig' = vec
    /\ UNCHANGED <<vec, yielded, seen, st>>

\* *x = w, through the first reference
WriteX(w) ==
    /\ phase = "held"
    /\ vec' = [vec EXCEPT ![out.x + 1] = w]
    /\ out' = [out EXCEPT !.op = "write_x", !.w = w]
    /\ UNCHANGED <<orig, phase, yielded, seen, st>>

\* *y = w, through the second reference
WriteY(w) ==
    /\ phase = "held"
    /\ vec' = [vec EXCEPT ![out.y + 1] = w]
    /\ out' = [out EXCEPT !.op = "write_y", !.w = w]
    /\ UNCHANGED <<orig, phase, yielded, seen, st>>

\* the references go out of scope
Release ==
    /\ phase = "held"
    /\ phase' = "idle"
    /\ out' = Called("none", 0, 0, NoRefs, None)
    /\ UNCHANGED <<vec, orig, yielded, seen, st>>

NextGetTwo ==
    \/ \E a \in Indices, b \in Indices : GetTwo(a, b) /\ UNCHANGED holderVars
    \/ \E w \in Values : WriteX(w) /\ UNCHANGED holderVars
    \/ \E w \in Values : WriteY(w) /\ UNCHANGED holderVars
    \/ Release /\ UNCHANGED holderVars

SpecGetTwo == InitGetTwo /\ [][NextGetTwo]_vars

\* ----------------------------------------------------------------- claims
\* C1  First writer wins: once a value is stored under a key, no step but a
\* clear changes the value get reads for the key, and an insert or insert_fn
\* called for the key returns a reference to that value.
C1_FirstWriterWins ==
    [][\A k \in DOMAIN items :
          last'.op # "clear" =>
             /\ get(holder', k) # None
             /\ Deref(holder', get(holder', k)) = Deref(holder, get(holder, k))
             /\ (last'.op \in {"insert", "insert_fn"} /\ last'.key = k) =>
                   /\ last'.res # None
                   /\ Deref(holder', last'.res) = Deref(holder, get(holder, k))
      ]_vars

\* C2  Address stability: the Box a key refers to stays allocated, at the same
\* address and with the same content, and stays the Box of the key, over every
\* step but a clear, the steps that grow the bucket array included.
C2_AddressStable ==
    [][\A k \in DOMAIN items :
          last'.op # "clear" =>
             /\ items[k] \in DOMAIN heap'
             /\ heap'[items[k]] = heap[items[k]]
             /\ get(holder', k) = items[k]
      ]_vars

\* C3  No operation of the Holder panics: the assert! of insert and insert_fn
\* holds in every reachable state.
C3_NoPanic == ~panicked

\* the keys of the inserts made so far in a run of distinct-key inserts
HistKeys == {hist[i].key : i \in 1..Len(hist)}

\* C4  After inserts of pairwise distinct keys into an empty Holder, every
\* insert has returned None, get reads for every inserted key the value that was
\* inserted with it and None for every other key, and len() is their number.
C4_DistinctInserts ==
    /\ \A i \in 1..Len(hist) :
          /\ hist[i].res = None
          /\ get(holder, hist[i].key) # None
          /\ Deref(holder, get(holder, hist[i].key)) = hist[i].val
    /\ \A k \in Keys \ HistKeys : get(holder, k) = None
    /\ len(holder) = Len(hist)

C4_Witness ==
    /\ Len(hist) >= 3
    /\ \E i, j \in 1..Len(hist) : hist[i].val # hist[j].val
    /\ hist[1].key > hist[2].key

\* C5  Lazy construction: a call of insert_fn runs its closure (once) exactly
\* when the key is absent at the call, and not at all when it is present; when
\* the call returns, the key is present, so that later calls run no closure.
C5_LazyConstruction ==
    [][/\ last'.op \in {"insert_fn", "element"} =>
             last'.ran = (last'.key \notin DOMAIN items)
       /\ last'.op \in {"insert_fn", "insert_fn_end"} =>
             /\ last'.op = "insert_fn_end" => ~last'.ran
             /\ last'.key \in DOMAIN items'
      ]_vars

C5_Witness ==
    /\ last.op = "insert_fn"
    /\ last.after = "insert_fn_end"
    /\ last.res # None
    /\ ~last.ran
    /\ ~panicked

\* C6  insert_fn returns a usable reference to the element of the key, for a key
\* that was present and for one that was absent: the result is Some, and it is
\* what get returns right after the call.
C6_InsertFnReturnsRef ==
    (last.op \in {"insert_fn", "insert_fn_end"} /\ ~panicked) =>
        /\ last.res # None
        /\ last.res = get(holder, last.key)

C8_Clear ==
    last.op = "clear" =>
        /\ len(holder) = 0
        /\ \A k \in Keys : get(holder, k) = None
        /\ DOMAIN heap = {}
        /\ capacity(holder) = last.cap

C8_Witness ==
    /\ last.op = "clear"
    /\ last.n >= 2
    /\ last.cap > 0

\* C9  shrink_to_fit retains every entry: the keys, their Boxes (address and
\* content) and len() are the same after the call, capacity() has not grown and
\* is at least len().
C9_ShrinkRetains ==
    [][last'.op = "shrink_to_fit" =>
          /\ items' = items
          /\ heap' = heap
          /\ len(holder') = len(holder)
          /\ \A k \in Keys : get(holder', k) = get(holder, k)
          /\ capacity(holder') <= capacity(holder)
          /\ capacity(holder') >= len(holder')
      ]_vars

C9_Witness ==
    /\ last.op = "shrink_to_fit"
    /\ last.n >= 1
    /\ capacity(holder) < last.cap

\* C10  After clear() followed by shrink_to_fit(), capacity() is 0; a clear that
\* removed an entry leaves a capacity above 0, so that the capacity after the
\* shrink_to_fit differs from the one before it.
C10_ClearShrink ==
    /\ (last.op = "shrink_to_fit" /\ last.after = "clear") =>
          /\ capacity(holder) = 0
          /\ last.cap > 0 => capacity(holder) # last.cap
    /\ (last.op = "clear" /\ last.n > 0) => capacity(holder) > 0

C10_Witness ==
    /\ last.op = "shrink_to_fit"
    /\ last.after = "clear"
    /\ last.cap >= 3
    /\ capacity(holder) = 0

\* C11  capacity() is a lower bound that inserts respect: with_capacity(n)
\* gives an empty Holder of capacity() >= n; a step that stores a new key and
\* leaves len() within the capacity() read before it leaves capacity() as it
\* was; and capacity() >= len() in every state.
C11_CapacityLowerBound ==
    /\ [](\A n \in 0..MaxInitCap :
             /\ len(with_capacity(n)) = 0
             /\ capacity(with_capacity(n)) >= n)
    /\ [](capacity(holder) >= len(holder))
    /\ [][(len(holder') = len(holder) + 1 /\ len(holder') <= capacity(holder)) =>
             capacity(holder') = capacity(holder)
         ]_vars

C11_Witness ==
    /\ last.op = "insert"
    /\ len(holder) = last.n + 1
    /\ last.n >= 1
    /\ len(holder) = last.cap
    /\ capacity(holder) = last.cap

\* C18  Entries only grow between clears: over every step but a clear no key
\* that is present becomes absent and len() does not decrease; len() grows by
\* exactly 1 over a step that stores an element for a key that is absent (an
\* insert, an insert_fn by a closure, the return of an insert_fn's closure) and
\* by 0 over every other step, shrink_to_fit included.
C18_EntriesOnlyGrow ==
    [][last'.op # "clear" =>
          /\ DOMAIN items \subseteq DOMAIN items'
          /\ len(holder') >= len(holder)
          /\ len(holder') =
                IF /\ last'.op \in {"insert", "insert_fn", "insert_fn_end"}
                   /\ last'.key \notin DOMAIN items
                THEN len(holder) + 1
                ELSE len(holder)
      ]_vars

C18_Witness ==
    /\ last.op = "shrink_to_fit"
    /\ last.n >= 2
    /\ len(holder) = last.n
    /\ capacity(holder) < last.cap

\* C19  A duplicate insert changes nothing: insert and insert_fn called for a key
\* that is present leave the Holder (keys, Boxes, values, len(), capacity()) as it
\* was, run no closure and return the stored element; get changes nothing either.
C19_DuplicateInsertNoChange ==
    [][/\ (last'.op \in {"insert", "insert_fn"} /\ last'.key \in DOMAIN items) =>
             /\ holder' = holder
             /\ len(holder') = len(holder)
             /\ capacity(holder') = capacity(holder)
             /\ ~last'.ran
             /\ last'.res = get(holder, last'.key)
             /\ panicked' = panicked
       /\ last'.op = "get" =>
             /\ holder' = holder
             /\ last'.res = get(holder, last'.key)
             /\ panicked' = panicked
      ]_vars

C19_Witness ==
    /\ last.op = "insert_fn"
    /\ last.after = "get"
    /\ last.res # None
    /\ len(holder) = last.n
    /\ len(holder) >= 2

\* what repeated calls of next() yield from v: the number of items, and the
\* last of them (None when there is none)
RECURSIVE NextCount(_)
NextCount(v) ==
    IF PopIter_next(v).res = None THEN 0 ELSE 1 + NextCount(PopIter_next(v).vec)

RECURSIVE NextFinal(_)
NextFinal(v) ==
    IF PopIter_next(v).res = None THEN None
    ELSE IF PopIter_next(PopIter_next(v).vec).res = None THEN PopIter_next(v).res
    ELSE NextFinal(PopIter_next(v).vec)

Reverse(s) == [j \in 1..Len(s) |-> s[Len(s) + 1 - j]]

Occurrences(v, x) == Cardinality({j \in DOMAIN v : v[j] = x})

\* C15  A PopIter over [e1..en] yields en, ..., e1 on successive calls of next,
\* each call removing the item it yields from the Vec; once n items are
\* yielded the Vec is empty and next returns None, and it returns None only then.
C15_PopOrder ==
    /\ [](phase = "iter" =>
             /\ vec \o Reverse(yielded) = orig
             /\ Len(yielded) = Len(orig) =>
                   (vec = <<>> /\ PopIter_next(vec).res = None)
             /\ (out.op = "next" /\ out.res = None) =>
                   (vec = <<>> /\ Len(yielded) = Len(orig)))
    /\ [][(out'.op = "next" /\ phase = "iter") =>
             IF vec = <<>>
             THEN out'.res = None /\ vec' = vec /\ yielded' = yielded
             ELSE /\ out'.res = vec[Len(vec)]
                  /\ vec = Append(vec', out'.res)
                  /\ yielded' = Append(yielded, out'.res)
         ]_vars

C15_Witness ==
    /\ phase = "iter"
    /\ out.op = "next"
    /\ out.res = None
    /\ Len(yielded) >= 3
    /\ yielded[1] # yielded[2]

\* C16  last() returns the item that repeated calls of next() would yield last,
\* which is the first element of the Vec (None for an empty Vec), and removes
\* that one element from the Vec and no other.
C16_LastIsFirst ==
    [][out'.op = "last" =>
          /\ out'.res = NextFinal(vec)
          /\ IF vec = <<>>
             THEN out'.res = None /\ vec' = vec
             ELSE /\ out'.res = vec[1]
                  /\ Len(vec') = Len(vec) - 1
                  /\ \A x \in Values :
                        Occurrences(vec', x) =
                           Occurrences(vec, x) - (IF x = out'.res THEN 1 ELSE 0)
      ]_vars

C16_Witness ==
    /\ out.op = "last"
    /\ Len(yielded) >= 1
    /\ Len(vec) >= 1
    /\ out.res # None
    /\ out.res # vec[1]

\* C17  count() returns the number of items repeated calls of next() would still
\* yield, the length of the Vec; size_hint() returns the lower bound 0 and that
\* number as the upper bound; neither removes an element of the Vec.
C17_CountSizeHint ==
    [][/\ out'.op = "count" =>
             /\ out'.res = NextCount(vec)
             /\ out'.res = Len(vec)
             /\ vec' = vec
       /\ out'.op = "size_hint" =>
             /\ out'.res = <<0, NextCount(vec)>>
             /\ vec' = vec
      ]_vars

C17_Witness ==
    /\ out.op = "count"
    /\ out.res >= 2
    /\ Len(yielded) >= 1
    /\ Len(vec) = out.res

\* the elements the predicate kept, as it left them, in the order of its calls
RECURSIVE Kept(_)
Kept(calls) ==
    IF calls = <<>> THEN <<>>
    ELSE IF Head(calls).keep THEN <<Head(calls).left>> \o Kept(Tail(calls))
    ELSE Kept(Tail(calls))

Falses(calls) == Cardinality({j \in DOMAIN calls : ~calls[j].keep})

\* C14  retain_mut leaves in the Vec exactly the elements for which the predicate
\* returned true, each as the predicate left it, in their original order; the
\* length is the original one minus the number of false results; and
\* [0,1,2,3,4,5] with "increment, keep if even" gives [2,4,6].
C14_RetainMut ==
    /\ phase = "done" =>
          /\ vec = Kept(seen)
          /\ Len(vec) = Len(orig) - Falses(seen)
          /\ Len(seen) = Len(orig)
    /\ retain_mut_inc_even(<<0, 1, 2, 3, 4, 5>>, retain_start(<<0, 1, 2, 3, 4, 5>>))
          = <<2, 4, 6>>

C14_Witness ==
    /\ phase = "done"
    /\ Len(orig) >= 3
    /\ ~seen[1].keep
    /\ seen[2].keep
    /\ seen[3].keep
    /\ seen[2].left # seen[3].left
    /\ seen[2].left # orig[2]

\* C20  retain_mut calls the predicate once for each element of the original
\* Vec, in ascending order of the index, and each call is given the element
\* that stood at that index when retain_mut was called.
C20_PredicateCalls ==
    /\ \A j \in 1..Len(seen) :
          /\ seen[j].idx = j - 1
          /\ seen[j].elem = orig[j]
    /\ phase = "loop" => Len(seen) = st.i
    /\ phase = "done" => Len(seen) = Len(orig)

C20_Witness ==
    /\ phase = "done"
    /\ Len(seen) >= 3
    /\ ~seen[1].keep
    /\ seen[2].keep
    /\ seen[1].left # orig[3]
    /\ seen[2].left # orig[3]
    /\ orig[1] # orig[3]

\* C12  get_two(a, b) on a Vec of length n returns None exactly when a = b or
\* a >= n or b >= n; with None the Vec is unchanged and no element is touched;
\* no element outside the Vec is ever touched.
C12_GetTwoNone ==
    out.op = "get_two" =>
        /\ out.some = ~(out.a = out.b \/ out.a >= Len(orig) \/ out.b >= Len(orig))
        /\ ~out.some => (vec = orig /\ out.touched = {})
        /\ out.touched \subseteq 0..(Len(orig) - 1)
        /\ Len(vec) = Len(orig)

C12_Witness ==
    /\ out.op = "get_two"
    /\ ~out.some
    /\ out.a # out.b
    /\ out.a < Len(vec)
    /\ out.b = Len(vec)

\* C13  With Some((x, y)), x is the element at index a and y the one at index b,
\* also when a > b; the two are not the same element; a write through x changes
\* position a and a write through y position b, and no other position.
C13_GetTwoRefs ==
    /\ [](out.some =>
             /\ out.x = out.a
             /\ out.y = out.b
             /\ out.x # out.y
             /\ out.x < Len(vec)
             /\ out.y < Len(vec))
    /\ [][/\ out'.op = "write_x" =>
                vec' = [vec EXCEPT ![out.a + 1] = out'.w]
          /\ out'.op = "write_y" =>
                vec' = [vec EXCEPT ![out.b + 1] = out'.w]
         ]_vars

C13_Witness ==
    /\ out.op = "write_x"
    /\ out.a > out.b
    /\ vec[out.a + 1] = out.w
    /\ vec[out.a + 1] # orig[out.a + 1]
    /\ vec[out.b + 1] = orig[out.b + 1]

=============================================================================
